---- MODULE Spec2Model ----
(***************************************************************************)
(* Model of the OpenCL vector-addition example: main() and add_opencl()    *)
(* of opencl_example.cpp and the Timer class of timer.cpp.                 *)
(*                                                                         *)
(* The OpenCL runtime, getopt_long and gettimeofday are the environment:   *)
(* every call returns one of the results its interface allows, chosen      *)
(* nondeterministically.  One action models one statement group of the     *)
(* source (an API call together with the check of its result).             *)
(***************************************************************************)
EXTENDS Integers, Sequences, FiniteSets, TLC

\* ------------------------------------------------------------- bounds
\* Largest array length handed to add_opencl by the direct-call harness.
MaxN == 2
\* Array length main() allocates (32 * 1024 * 1024 in the source), scaled.
MainN == 2
\* Width of int in bits (32 in the source), scaled.
IntBits == 4
\* Largest work-group size a device reports.
MaxWG == 2
\* Longest command line (arguments after the program name).
MaxArgs == 2
\* gettimeofday readings: tv_sec in 0..MaxSec, tv_usec in 0..UsecPerSec-1
\* (one million microseconds per second in the source, scaled).
MaxSec == 4
UsecPerSec == 3
\* A double holding seconds since the epoch resolves 2^-TickBits seconds
\* (2^-22 for dates between 2004 and 2038); doubles are counted in such ticks.
TickBits == 1
\* Significand bits of float (24 in the source's platform), scaled so that, as
\* on the platform, FloatMant = TickBits + 2: a float holds every tick count
\* below four seconds exactly.
FloatMant == 3

\* ------------------------------------------------------------ helpers
RECURSIVE Pow2(_)
Pow2(k) == IF k <= 0 THEN 1 ELSE 2 * Pow2(k - 1)

RECURSIVE Bits(_)
\* Number of binary digits of n >= 0.
Bits(n) == IF n = 0 THEN 0 ELSE 1 + Bits(n \div 2)

\* num / den rounded to the nearest integer, ties to even (IEEE 754 default).
RoundHalfEven(num, den) ==
  LET q == num \div den
      r == num % den
  IN  IF 2 * r > den \/ (2 * r = den /\ q % 2 = 1) THEN q + 1 ELSE q

IntMin == -Pow2(IntBits - 1)
IntMax == Pow2(IntBits - 1) - 1
TicksPerSec == Pow2(TickBits)

\* int addition as the machine performs it (two's complement wrap-around).
AddInt(x, y) ==
  LET s == x + y
  IN  IF s > IntMax THEN s - Pow2(IntBits)
      ELSE IF s < IntMin THEN s + Pow2(IntBits)
      ELSE s

\* Element values the harness draws input arrays from: a small value and the
\* largest int, so that sums both with and without overflow occur.
Samples == {1, IntMax}

Arrays(n, S) == [1..n -> S]

\* An int array that is allocated but not written holds nothing the program
\* may read: it is modelled as the empty sequence (so is a freed one).
Uninit(n) == << >>

\* ---------------------------------------------------------- Timer (timer.cpp)
Readings == [sec : 0..MaxSec, usec : 0..(UsecPerSec - 1)]

\* Timer::now(): (double)tv_sec + (double)tv_usec * 1.e-6, in ticks.
now(tv) == tv.sec * TicksPerSec + RoundHalfEven(tv.usec * TicksPerSec, UsecPerSec)

\* elapsed() with its operands exchanged.
elapsed_swapped(start, stop) == start - stop

\* Timer::elapsed(): m_stop - m_start.
elapsed(start, stop) == stop - start

\* Conversion double -> float of a tick count: nearest value with FloatMant
\* significant bits, ties to even.
RoundMant(n) ==
  IF n < Pow2(FloatMant) THEN n
  ELSE LET step == Pow2(Bits(n) - FloatMant)
       IN  RoundHalfEven(n, step) * step

ToFloat(x) == IF x < 0 THEN -RoundMant(-x) ELSE RoundMant(x)

\* The return statement of add_opencl, whose return type is float.
ReturnValue(start, stop) == ToFloat(elapsed(start, stop))

\* ------------------------------------------------------ command line (main)
Short(c) == [kind |-> "short", name |-> c]
Long(n)  == [kind |-> "long", name |-> n]
\* The arguments the model draws command lines from: the four flags, an
\* unknown short flag, an unknown long flag, the "--" terminator and a
\* non-option operand.
Tokens == { Short("c"), Long("use-cpu"), Short("g"), Long("use-gpu"),
            Short("x"), Long("foo"),
            [kind |-> "end", name |-> "--"],
            [kind |-> "operand", name |-> "file"] }

RECURSIVE SeqsUpTo(_, _)
SeqsUpTo(S, n) ==
  IF n = 0 THEN { <<>> }
  ELSE LET shorter == SeqsUpTo(S, n - 1)
       IN  shorter \cup { Append(s, x) : s \in { t \in shorter : Len(t) = n - 1 }, x \in S }

\* The optstring handed to getopt_long.
optstring == {"c", "g"}

\* struct option longopts[]: two entries and no all-zero entry after them.
longopts ==
  << [name |-> "use-cpu", val |-> "c"], [name |-> "use-gpu", val |-> "g"] >>

\* What one getopt_long call can return for the option argument tok.  A long
\* option is looked up entry by entry until an exact match or the all-zero
\* entry; without that entry the lookup of a name that matches no entry runs
\* past the end of the array, which is undefined: it may find a zero word and
\* report '?', fault, or take whatever it reads as an entry.
getopt_long(tok, opts) ==
  IF tok.kind = "short"
  THEN IF tok.name \in optstring THEN { tok.name } ELSE { "?" }
  ELSE LET hit == { k \in 1..Len(opts) : opts[k].name = tok.name }
       IN  IF hit # {} THEN { opts[k].val : k \in hit }
           ELSE IF opts[Len(opts)].name = "NULL" THEN { "?" }
           ELSE { "?", "SIGSEGV", "c", "g" }

RECURSIVE SkipOperands(_, _)
\* getopt_long passes over non-option arguments (it permutes them to the end).
SkipOperands(args, i) ==
  IF i <= Len(args) /\ args[i].kind = "operand" THEN SkipOperands(args, i + 1) ELSE i

\* ------------------------------------------------------------- state
VARIABLES
  entry,        \* "main": the program is run; "call": add_opencl is called
                \* directly; "timer": a Timer is driven directly
  pc,           \* the statement about to execute
  argv, optind, \* main's arguments and getopt's position in them
  use_gpu,      \* main's flag / add_opencl's parameter
  N,            \* array length
  heap,         \* the host arrays a, b and c
  a_host, b_host, c_host,  \* add_opencl's pointer parameters (names of heap arrays)
  device,       \* the device clGetDeviceIDs selected, with its properties
  source,       \* what was read from opencl_example.cl
  acquired,     \* device objects whose non-NULL handle add_opencl holds
  released,     \* the device objects clRelease* was called on, in order
  devmem,       \* contents of the device buffers
  local_size, global_size,
  m_start, m_stop,   \* the Timer's fields, in ticks
  wall,         \* what gettimeofday reports now
  startAt, stopAt,   \* the reading taken by the latest start() / stop() (history)
  calls,        \* the calls made so far, in order (history)
  statuses,     \* for each call in calls, whether it reported success (history)
  checked,      \* output elements the validation loop compared (history)
  outcome,      \* of add_opencl: "none", "running", "returned", "thrown"
  failure,      \* what() of the exception thrown, or "none"
  ret,          \* the value add_opencl (or Timer::elapsed) returned
  stdout,       \* the lines written to standard output
  exit          \* "none", "exit0", "terminated" (uncaught exception), "crashed"

vars == << entry, pc, argv, optind, use_gpu, N, heap, a_host, b_host, c_host,
           device, source, acquired, released, devmem, local_size, global_size,
           m_start, m_stop, wall, startAt, stopAt, calls, statuses, checked,
           outcome, failure, ret, stdout, exit >>

progVars == << device, source, acquired, released, devmem, local_size,
               global_size, checked >>
timerVars == << m_start, m_stop, startAt, stopAt >>
argVars == << use_gpu, N, heap, a_host, b_host, c_host >>

\* ------------------------------------------------------------- Init
InitCommon ==
  /\ device = [type |-> "none", wg |-> 0, uniform |-> FALSE] /\ source = "none"
  /\ acquired = {} /\ released = << >>
  /\ devmem = [b \in {"a_device", "b_device", "c_device"} |-> << >>]
  /\ local_size = 0 /\ global_size = 0
  /\ m_start = 0 /\ m_stop = 0
  /\ wall = [sec |-> 0, usec |-> 0]
  /\ startAt = << >> /\ stopAt = << >>
  /\ calls = << >> /\ statuses = << >> /\ checked = 0
  /\ failure = "none" /\ ret = << >>
  /\ stdout = << >> /\ exit = "none"

\* The program is started with some command line.
InitMain(cmdlines) ==
  /\ entry = "main" /\ pc = "getopt"
  /\ argv \in cmdlines /\ optind = 1
  /\ use_gpu = FALSE
  /\ N = 0
  /\ heap = [x \in {"a", "b", "c"} |-> << >>]
  /\ a_host = "none" /\ b_host = "none" /\ c_host = "none"
  /\ outcome = "none"
  /\ InitCommon

\* add_opencl is called with any flag, any length and any two input arrays.
InitCall ==
  /\ entry = "call" /\ pc = "clGetDeviceIDs"
  /\ argv = << >> /\ optind = 1
  /\ use_gpu \in BOOLEAN
  /\ N \in 0..MaxN
  /\ \E A \in Arrays(N, Samples), B \in Arrays(N, Samples) :
       heap = [x \in {"a", "b", "c"} |->
                 IF x = "a" THEN A ELSE IF x = "b" THEN B ELSE Uninit(N)]
  /\ a_host = "a" /\ b_host = "b" /\ c_host = "c"
  /\ outcome = "running"
  /\ InitCommon

\* A Timer has just been constructed: m_start(0.0), m_stop(0.0).
InitTimer ==
  /\ entry = "timer" /\ pc = "timer"
  /\ argv = << >> /\ optind = 1
  /\ use_gpu = FALSE
  /\ N = 0
  /\ heap = [x \in {"a", "b", "c"} |-> << >>]
  /\ a_host = "none" /\ b_host = "none" /\ c_host = "none"
  /\ outcome = "none"
  /\ InitCommon

\* ------------------------------------------------------------ bookkeeping
\* The calls `names` were made and reported success (TRUE) or not, in order.
Record(names, oks) ==
  /\ calls' = calls \o names
  /\ statuses' = statuses \o oks

\* throw std::runtime_error(msg): nothing in the program catches it, so under
\* main() the process ends in std::terminate.
Throw(msg) ==
  /\ pc' = "done"
  /\ outcome' = "thrown"
  /\ failure' = msg
  /\ exit' = IF entry = "main" THEN "terminated" ELSE exit

Goto(next) ==
  /\ pc' = next
  /\ UNCHANGED << outcome, failure, exit >>

\* ---------------------------------------------------------------- main()
\* One turn of the option loop: a getopt_long call and the switch on its result.
Getopt ==
  /\ pc = "getopt"
  /\ LET j == SkipOperands(argv, optind)
     IN  IF j > Len(argv) \/ argv[j].kind = "end"
         THEN \* getopt_long returned -1
              /\ pc' = "alloc"
              /\ optind' = IF j > Len(argv) THEN j ELSE j + 1
              /\ UNCHANGED << use_gpu, exit >>
         ELSE \E o \in getopt_long(argv[j], longopts) :
                /\ optind' = j + 1
                /\ IF o = "SIGSEGV"
                   THEN pc' = "done" /\ exit' = "crashed" /\ UNCHANGED use_gpu
                   ELSE /\ pc' = "getopt"
                        /\ use_gpu' = CASE o = "c" -> FALSE
                                        [] o = "g" -> TRUE
                                        [] OTHER   -> use_gpu
                        /\ UNCHANGED exit
  /\ UNCHANGED << entry, argv, N, heap, a_host, b_host, c_host, progVars,
                  timerVars, wall, calls, statuses, outcome, failure, ret, stdout >>

\* unsigned int N = 32 * 1024 * 1024; new int[N] three times; a[i] = i, b[i] = 2 * i.
Alloc ==
  /\ pc = "alloc"
  /\ \E ok \in BOOLEAN :
       IF ok
       THEN /\ N' = MainN
            /\ heap' = [x \in {"a", "b", "c"} |->
                          IF x = "a" THEN [i \in 1..MainN |-> i - 1]
                          ELSE IF x = "b" THEN [i \in 1..MainN |-> 2 * (i - 1)]
                          ELSE Uninit(MainN)]
            /\ pc' = "call"
            /\ UNCHANGED << failure, exit >>
       ELSE \* operator new[] throws std::bad_alloc
            /\ pc' = "done" /\ failure' = "std::bad_alloc" /\ exit' = "terminated"
            /\ UNCHANGED << N, heap >>
  /\ UNCHANGED << entry, argv, optind, use_gpu, a_host, b_host, c_host, progVars,
                  timerVars, wall, calls, statuses, outcome, ret, stdout >>

\* add_opencl(use_gpu, c, b, a, N): the callee's a_host is main's b and its
\* b_host is main's a.
CallAddOpencl ==
  /\ pc = "call"
  /\ a_host' = "b" /\ b_host' = "a" /\ c_host' = "c"
  /\ outcome' = "running"
  /\ pc' = "clGetDeviceIDs"
  /\ UNCHANGED << entry, argv, optind, use_gpu, N, heap, progVars, timerVars,
                  wall, calls, statuses, failure, ret, stdout, exit >>

\* double opencl_time = <the float returned>; the line is written to std::cout.
PrintTime ==
  /\ pc = "print"
  /\ stdout' = Append(stdout, << "OpenCL execution time: ", ret[1], "s" >>)
  /\ pc' = "delete"
  /\ UNCHANGED << entry, argv, optind, argVars, progVars, timerVars, wall,
                  calls, statuses, outcome, failure, ret, exit >>

\* delete [] c; delete [] b; delete [] a; return 0;
Exit ==
  /\ pc = "delete"
  /\ heap' = [x \in {"a", "b", "c"} |-> << >>]
  /\ exit' = "exit0"
  /\ pc' = "done"
  /\ UNCHANGED << entry, argv, optind, use_gpu, N, a_host, b_host, c_host,
                  progVars, timerVars, wall, calls, statuses, outcome, failure,
                  ret, stdout >>

\* ------------------------------------------------------------ add_opencl()
\* State the steps before the timed region leave alone.
setupFrame == << entry, argv, optind, argVars, timerVars, wall, checked, ret,
                 stdout, released, global_size >>

\* clGetDeviceIDs for CL_DEVICE_TYPE_GPU or CL_DEVICE_TYPE_CPU.  The device
\* found has a maximum work-group size and either insists on a global size
\* that is a multiple of the local size or does not.
GetDeviceIDs ==
  /\ pc = "clGetDeviceIDs"
  /\ \E ok \in BOOLEAN, wg \in 1..MaxWG, uniform \in BOOLEAN :
       /\ Record(<< "clGetDeviceIDs" >>, << ok >>)
       /\ IF ok
          THEN /\ device' = [type |-> IF use_gpu THEN "GPU" ELSE "CPU",
                             wg |-> wg, uniform |-> uniform]
               /\ Goto("clCreateContext")
          ELSE UNCHANGED device /\ Throw("clGetDeviceIDs")
  /\ UNCHANGED << setupFrame, source, acquired, devmem, local_size >>

\* A clCreate* call whose handle is checked: step `name` yields object `obj`.
Create(name, obj, next) ==
  /\ pc = name
  /\ \E ok \in BOOLEAN :
       /\ Record(<< name >>, << ok >>)
       /\ IF ok
          THEN acquired' = acquired \cup {obj} /\ Goto(next)
          ELSE UNCHANGED acquired /\ Throw(name)
  /\ UNCHANGED << setupFrame, device, source, devmem, local_size >>

CreateContext == Create("clCreateContext", "context", "clCreateCommandQueue")

CreateCommandQueue == Create("clCreateCommandQueue", "commands", "ifstream")

\* The kernel source is read from opencl_example.cl; the read is not checked.
LoadSource ==
  /\ pc = "ifstream"
  /\ source' \in {"valid", "malformed"}
  /\ Record(<< "ifstream" >>, << TRUE >>)
  /\ Goto("clCreateProgramWithSource")
  /\ UNCHANGED << setupFrame, device, acquired, devmem, local_size >>

CreateProgramWithSource ==
  Create("clCreateProgramWithSource", "program", "clBuildProgram")

\* clBuildProgram without the check of its status.
BuildProgram_unchecked ==
  /\ pc = "clBuildProgram"
  /\ \E ok \in BOOLEAN :
       /\ ok => source = "valid"
       /\ Record(<< "clBuildProgram" >>, << ok >>)
       /\ Goto("clCreateKernel")
  /\ UNCHANGED << setupFrame, device, source, acquired, devmem, local_size >>

\* clBuildProgram compiles the source; a malformed source does not compile.
BuildProgram ==
  /\ pc = "clBuildProgram"
  /\ \E ok \in BOOLEAN :
       /\ ok => source = "valid"
       /\ Record(<< "clBuildProgram" >>, << ok >>)
       /\ IF ok THEN Goto("clCreateKernel") ELSE Throw("clBuildProgram")
  /\ UNCHANGED << setupFrame, device, source, acquired, devmem, local_size >>

CreateKernel == Create("clCreateKernel", "kernel", "clCreateBuffer")

buffers == << "a_device", "b_device", "c_device" >>

\* The three clCreateBuffer calls without the check of the handles.
CreateBuffer_unchecked ==
  /\ pc = "clCreateBuffer"
  /\ \E oks \in [1..3 -> BOOLEAN] :
       /\ Record(<< "clCreateBuffer", "clCreateBuffer", "clCreateBuffer" >>, oks)
       /\ acquired' = acquired \cup { buffers[k] : k \in { j \in 1..3 : oks[j] } }
       /\ devmem' = [b \in DOMAIN devmem |->
                       IF \E k \in 1..3 : buffers[k] = b /\ oks[k]
                       THEN Uninit(N) ELSE devmem[b]]
       /\ Goto("clEnqueueWriteBuffer(a)")
  /\ UNCHANGED << setupFrame, device, source, local_size >>

\* The three clCreateBuffer calls (no errcode_ret) and the one check of the
\* three handles after them.
CreateBuffer ==
  /\ pc = "clCreateBuffer"
  /\ \E oks \in [1..3 -> BOOLEAN] :
       /\ Record(<< "clCreateBuffer", "clCreateBuffer", "clCreateBuffer" >>, oks)
       /\ acquired' = acquired \cup { buffers[k] : k \in { j \in 1..3 : oks[j] } }
       /\ devmem' = [b \in DOMAIN devmem |->
                       IF \E k \in 1..3 : buffers[k] = b /\ oks[k]
                       THEN Uninit(N) ELSE devmem[b]]
       /\ IF \A k \in 1..3 : oks[k]
          THEN Goto("clEnqueueWriteBuffer(a)")
          ELSE Throw("clCreateBuffer")
  /\ UNCHANGED << setupFrame, device, source, local_size >>

\* A blocking clEnqueueWriteBuffer of host array `from` into buffer `buf`.  A
\* NULL buffer is not a valid memory object: the call cannot succeed on it.
WriteBuffer(at, buf, from, next) ==
  /\ pc = at
  /\ \E ok \in BOOLEAN :
       /\ ok => buf \in acquired
       /\ Record(<< "clEnqueueWriteBuffer" >>, << ok >>)
       /\ IF ok
          THEN devmem' = [devmem EXCEPT ![buf] = heap[from]] /\ Goto(next)
          ELSE UNCHANGED devmem /\ Throw("clEnqueueWriteBuffer")
  /\ UNCHANGED << setupFrame, device, source, acquired, local_size >>

EnqueueWriteBufferA ==
  WriteBuffer("clEnqueueWriteBuffer(a)", "a_device", a_host, "clEnqueueWriteBuffer(b)")

EnqueueWriteBufferB ==
  WriteBuffer("clEnqueueWriteBuffer(b)", "b_device", b_host, "clSetKernelArg")

\* Three clSetKernelArg calls whose statuses are or-ed, then one check.
SetKernelArg ==
  /\ pc = "clSetKernelArg"
  /\ \E oks \in [1..3 -> BOOLEAN] :
       /\ (\A k \in 1..3 : oks[k]) => { buffers[k] : k \in 1..3 } \subseteq acquired
       /\ Record(<< "clSetKernelArg", "clSetKernelArg", "clSetKernelArg" >>, oks)
       /\ IF \A k \in 1..3 : oks[k]
          THEN Goto("clGetKernelWorkGroupInfo")
          ELSE Throw("clSetKernelArg")
  /\ UNCHANGED << setupFrame, device, source, acquired, devmem, local_size >>

\* size_t local_size = 0; clGetKernelWorkGroupInfo(CL_KERNEL_WORK_GROUP_SIZE).
GetKernelWorkGroupInfo ==
  /\ pc = "clGetKernelWorkGroupInfo"
  /\ \E ok \in BOOLEAN :
       /\ Record(<< "clGetKernelWorkGroupInfo" >>, << ok >>)
       /\ IF ok
          THEN local_size' = device.wg /\ Goto("Timer::start")
          ELSE UNCHANGED local_size /\ Throw("clGetKernelWorkGroupInfo")
  /\ UNCHANGED << setupFrame, device, source, acquired, devmem >>

\* ----------------------------------------------------------- Timer methods
\* Timer::start(): m_start = now().
Timer_start == m_start' = now(wall) /\ m_stop' = m_stop

\* Timer::stop(): m_stop = now().
Timer_stop == m_stop' = now(wall) /\ m_start' = m_start

\* gettimeofday's answer changes between two readings: time passes, or the
\* wall clock is set.  Only the value at a reading is observed, so the clock
\* is let change right before one.
Tick ==
  /\ pc \in {"Timer::start", "Timer::stop", "timer"}
  /\ wall' \in Readings \ {wall}
  /\ UNCHANGED << entry, pc, argv, optind, argVars, progVars, timerVars, calls,
                  statuses, outcome, failure, ret, stdout, exit >>

\* ------------------------------------------------- add_opencl(), continued
\* Timer execution_timer; execution_timer.start();
TimerStart ==
  /\ pc = "Timer::start"
  /\ Timer_start
  /\ startAt' = << wall >>
  /\ Record(<< "Timer::start" >>, << TRUE >>)
  /\ Goto("clEnqueueNDRangeKernel")
  /\ UNCHANGED << entry, argv, optind, argVars, progVars, stopAt, wall, ret,
                  stdout >>

\* A global size padded to the next multiple of the local size.
global_size_rounded_up(n, local) ==
  IF local > 0 THEN ((n + local - 1) \div local) * local ELSE n

\* size_t global_size = N;
GlobalSize(n, local) == n

\* What the kernel may leave in the output buffer at index i: the sum of the
\* two inputs, or something else.
DeviceResults(i) ==
  Samples \cup { AddInt(devmem["a_device"][i], devmem["b_device"][i]) }

\* clEnqueueNDRangeKernel over global_size items in groups of local_size.
EnqueueNDRangeKernel ==
  /\ pc = "clEnqueueNDRangeKernel"
  /\ global_size' = GlobalSize(N, local_size)
  /\ \E ok \in BOOLEAN :
       /\ ok => (~device.uniform \/ global_size' % local_size = 0)
       /\ Record(<< "clEnqueueNDRangeKernel" >>, << ok >>)
       /\ IF ok
          THEN /\ \E out \in Arrays(N, UNION { DeviceResults(i) : i \in 1..N }) :
                    /\ \A i \in 1..N : out[i] \in DeviceResults(i)
                    /\ devmem' = [devmem EXCEPT !["c_device"] = out]
               /\ Goto("clFinish")
          ELSE UNCHANGED devmem /\ Throw("clEnqueueNDRangeKernel")
  /\ UNCHANGED << entry, argv, optind, argVars, timerVars, wall, device, source,
                  acquired, released, local_size, checked, ret, stdout >>

\* clFinish(commands); its status is not looked at.
Finish ==
  /\ pc = "clFinish"
  /\ \E ok \in BOOLEAN : Record(<< "clFinish" >>, << ok >>)
  /\ Goto("Timer::stop")
  /\ UNCHANGED << entry, argv, optind, argVars, progVars, timerVars, wall, ret,
                  stdout >>

\* execution_timer.stop();
TimerStop ==
  /\ pc = "Timer::stop"
  /\ Timer_stop
  /\ stopAt' = << wall >>
  /\ Record(<< "Timer::stop" >>, << TRUE >>)
  /\ Goto("clEnqueueReadBuffer")
  /\ UNCHANGED << entry, argv, optind, argVars, progVars, startAt, wall, ret,
                  stdout >>

\* A blocking clEnqueueReadBuffer of c_device into c_host.
EnqueueReadBuffer ==
  /\ pc = "clEnqueueReadBuffer"
  /\ \E ok \in BOOLEAN :
       /\ Record(<< "clEnqueueReadBuffer" >>, << ok >>)
       /\ IF ok
          THEN heap' = [heap EXCEPT ![c_host] = devmem["c_device"]] /\ Goto("validate")
          ELSE UNCHANGED heap /\ Throw("clEnqueueReadBuffer")
  /\ UNCHANGED << entry, argv, optind, use_gpu, N, a_host, b_host, c_host,
                  progVars, timerVars, wall, ret, stdout >>

\* The mismatches of a loop that stops one element early.
Mismatches_skipping_last(n) ==
  { i \in 1..(n - 1) : heap[c_host][i] # AddInt(heap[a_host][i], heap[b_host][i]) }

\* The indices i < N with c_host[i] != a_host[i] + b_host[i].
Mismatches(n) ==
  { i \in 1..n : heap[c_host][i] # AddInt(heap[a_host][i], heap[b_host][i]) }

\* The validation loop: it throws at the first mismatch.
Validate ==
  /\ pc = "validate"
  /\ Record(<< "validate" >>, << TRUE >>)
  /\ LET bad == Mismatches(N)
     IN  IF bad = {}
         THEN checked' = N /\ Goto("clRelease")
         ELSE /\ checked' = CHOOSE i \in bad : \A j \in bad : i <= j
              /\ Throw("Result validation failed")
  /\ UNCHANGED << entry, argv, optind, argVars, device, source, acquired,
                  released, devmem, local_size, global_size, timerVars, wall,
                  ret, stdout >>

\* A release list that names a_device twice and b_device never.
releases_a_twice ==
  << "a_device", "a_device", "c_device", "program", "kernel", "commands", "context" >>

\* The objects the seven clRelease* calls are made on, in order.
releases ==
  << "a_device", "b_device", "c_device", "program", "kernel", "commands", "context" >>

releaseCalls ==
  << "clReleaseMemObject", "clReleaseMemObject", "clReleaseMemObject",
     "clReleaseProgram", "clReleaseKernel", "clReleaseCommandQueue",
     "clReleaseContext" >>

\* clReleaseMemObject x 3, clReleaseProgram, clReleaseKernel,
\* clReleaseCommandQueue, clReleaseContext; no status is looked at.
Release ==
  /\ pc = "clRelease"
  /\ released' = released \o releases
  /\ \E oks \in [1..7 -> BOOLEAN] : Record(releaseCalls, oks)
  /\ Goto("return")
  /\ UNCHANGED << entry, argv, optind, argVars, device, source, acquired, devmem,
                  local_size, global_size, checked, timerVars, wall, ret, stdout >>

\* return execution_timer.elapsed();
Return ==
  /\ pc = "return"
  /\ ret' = << ReturnValue(m_start, m_stop) >>
  /\ outcome' = "returned"
  /\ pc' = IF entry = "main" THEN "print" ELSE "done"
  /\ UNCHANGED << entry, argv, optind, argVars, progVars, timerVars, wall, calls,
                  statuses, failure, stdout, exit >>

\* ------------------------------------------------------- a Timer on its own
timerFrame == << entry, pc, argv, optind, argVars, progVars, wall, calls,
                 statuses, outcome, failure, stdout, exit >>

TStart ==
  /\ pc = "timer"
  /\ Timer_start
  /\ startAt' = << wall >>
  /\ UNCHANGED << timerFrame, stopAt, ret >>

TStop ==
  /\ pc = "timer"
  /\ Timer_stop
  /\ stopAt' = << wall >>
  /\ UNCHANGED << timerFrame, startAt, ret >>

TElapsed ==
  /\ pc = "timer"
  /\ ret' = << elapsed(m_start, m_stop) >>
  /\ UNCHANGED << timerFrame, timerVars >>

\* ------------------------------------------------------------ specifications
AddOpencl ==
  \/ GetDeviceIDs \/ CreateContext \/ CreateCommandQueue \/ LoadSource
  \/ CreateProgramWithSource \/ BuildProgram \/ CreateKernel \/ CreateBuffer
  \/ EnqueueWriteBufferA \/ EnqueueWriteBufferB \/ SetKernelArg
  \/ GetKernelWorkGroupInfo \/ TimerStart \/ EnqueueNDRangeKernel \/ Finish
  \/ TimerStop \/ EnqueueReadBuffer \/ Validate \/ Release \/ Return

Main == Getopt \/ Alloc \/ CallAddOpencl \/ PrintTime \/ Exit

\* add_opencl called directly, on any inputs.
Next == AddOpencl
Spec == InitCall /\ [][Next]_vars

\* The program run on any command line.
NextArgs == Main \/ AddOpencl
SpecArgs == InitMain(SeqsUpTo(Tokens, MaxArgs)) /\ [][NextArgs]_vars

\* The program run without arguments, the wall clock moving.
NextClock == Main \/ AddOpencl \/ Tick
SpecClock == InitMain({ << >> }) /\ [][NextClock]_vars

\* A Timer driven by any sequence of start(), stop() and elapsed() calls.
NextTimer == TStart \/ TStop \/ TElapsed \/ Tick
SpecTimer == InitTimer /\ [][NextTimer]_vars

\* ---------------------------------------------------------------- properties
Occurs(name) == \E k \in 1..Len(calls) : calls[k] = name

Count(seq, x) == Cardinality({ k \in 1..Len(seq) : seq[k] = x })

\* Positions of the calls that reported a non-success status.
Failed == { k \in 1..Len(calls) : ~statuses[k] }

Resources ==
  { "a_device", "b_device", "c_device", "program", "kernel", "commands", "context" }

HostSum(i) == AddInt(heap[a_host][i], heap[b_host][i])

\* C1: for N >= 1, when add_opencl returns normally every output element is
\* the int sum of the two inputs (the exact sum wherever that fits an int),
\* and once the device result has been read back, a result with a mismatching
\* element ends the call with "Result validation failed", not a return.
C1_OutputIsSum ==
  (entry = "call" /\ N >= 1) =>
    /\ outcome = "returned" =>
         \A i \in 1..N :
           /\ heap[c_host][i] = HostSum(i)
           /\ (heap[a_host][i] + heap[b_host][i] \in IntMin..IntMax
                 => heap[c_host][i] = heap[a_host][i] + heap[b_host][i])
    /\ (Occurs("validate")
          /\ \E i \in 1..N : devmem["c_device"][i] # HostSum(i))
         => outcome = "thrown" /\ failure = "Result validation failed"

C1_Witness ==
  /\ entry = "call" /\ N = MaxN /\ outcome = "returned"
  /\ \E i \in 1..N : heap[a_host][i] + heap[b_host][i] > IntMax
  /\ \E i \in 1..N : heap[a_host][i] + heap[b_host][i] <= IntMax

\* C2: a call that reports a non-success status ends add_opencl with an
\* exception naming that call's step, and no call of a later step follows it.
C2_FailureAborts ==
  \A k \in Failed :
    /\ outcome = "thrown"
    /\ failure = calls[k]
    /\ \A j \in (k + 1)..Len(calls) : calls[j] = calls[k]

\* C3: when compilation fails (as it does for a malformed source), add_opencl
\* throws "clBuildProgram" and no device buffer exists or is written, no
\* kernel is enqueued and nothing is read into the host output array.
C3_CompileFailure ==
  /\ (\E k \in Failed : calls[k] = "clBuildProgram") =>
       /\ outcome = "thrown" /\ failure = "clBuildProgram"
       /\ ~Occurs("clCreateBuffer") /\ ~Occurs("clEnqueueWriteBuffer")
       /\ ~Occurs("clEnqueueNDRangeKernel") /\ ~Occurs("clEnqueueReadBuffer")
       /\ \A b \in DOMAIN devmem : devmem[b] = << >>
       /\ heap[c_host] = << >>
  /\ (source = "malformed" /\ Occurs("clBuildProgram")) =>
       \E k \in Failed : calls[k] = "clBuildProgram"

C3_Witness ==
  source = "malformed" /\ failure = "clBuildProgram" /\ pc = "done"

\* C4: a normal return has released each of the seven device objects exactly
\* once; no release call is made before validation has passed, so after a
\* throw every object acquired so far is still held.
C4_ReleaseOnHappyPathOnly ==
  /\ outcome = "returned" =>
       \A r \in Resources : r \in acquired /\ Count(released, r) = 1
  /\ released # << >> =>
       /\ failure = "none" /\ Occurs("validate") /\ checked = N
       /\ pc \in {"return", "print", "delete", "done"}
  /\ outcome = "thrown" => released = << >>
  /\ \A r \in Resources : Count(released, r) <= 1

C4_Witness ==
  /\ outcome = "thrown" /\ released = << >>
  /\ "a_device" \in acquired /\ "b_device" \notin acquired

\* Position of the only call of `name` in calls (0 if there is none).
IndexOf(name) ==
  IF Occurs(name) THEN CHOOSE k \in 1..Len(calls) : calls[k] = name ELSE 0

SetupCalls ==
  { "clGetDeviceIDs", "clCreateContext", "clCreateCommandQueue", "ifstream",
    "clCreateProgramWithSource", "clBuildProgram", "clCreateKernel",
    "clCreateBuffer", "clEnqueueWriteBuffer", "clSetKernelArg",
    "clGetKernelWorkGroupInfo" }

\* The stopwatch brackets the dispatch and the wait, nothing else: start()
\* follows every setup call, all of them successful, and precedes the
\* enqueue; stop() follows clFinish and precedes the read-back and validation.
TimerBrackets ==
  /\ Occurs("Timer::start") =>
       /\ \A s \in SetupCalls : Occurs(s)
       /\ Count(calls, "clCreateBuffer") = 3
       /\ Count(calls, "clEnqueueWriteBuffer") = 2
       /\ Count(calls, "clSetKernelArg") = 3
       /\ \A k \in 1..Len(calls) :
            /\ calls[k] \in SetupCalls => k < IndexOf("Timer::start") /\ statuses[k]
            /\ calls[k] \notin SetupCalls => k >= IndexOf("Timer::start")
       /\ Count(calls, "Timer::start") = 1
  /\ Occurs("Timer::stop") =>
       /\ IndexOf("Timer::stop") = IndexOf("Timer::start") + 3
       /\ calls[IndexOf("Timer::start") + 1] = "clEnqueueNDRangeKernel"
       /\ calls[IndexOf("Timer::start") + 2] = "clFinish"
       /\ Count(calls, "Timer::stop") = 1
  /\ \A k \in 1..Len(calls) :
       calls[k] \in {"clEnqueueReadBuffer", "validate"} =>
         Occurs("Timer::stop") /\ k > IndexOf("Timer::stop")

\* The double Timer::now() made of a reading.
At(reading) == IF reading = << >> THEN 0 ELSE now(reading[1])

\* C5: the stopwatch brackets the dispatch and the wait only, and the value
\* add_opencl returns is elapsed() of that interval: the instant read at
\* stop() minus the instant read at start().
C5_ReturnsBracketedElapsed ==
  /\ TimerBrackets
  /\ outcome = "returned" => ret = << At(stopAt) - At(startAt) >>

\* C6: elapsed() is the instant of the latest stop() (0 if none) minus the
\* instant of the latest start() (0 if none); start() leaves m_stop alone,
\* stop() leaves m_start alone and elapsed() changes neither field.
C6_TimerElapsed ==
  /\ [](elapsed(m_start, m_stop) = At(stopAt) - At(startAt))
  /\ [][ /\ TStart => m_stop' = m_stop /\ stopAt' = stopAt
         /\ TStop => m_start' = m_start /\ startAt' = startAt
         /\ TElapsed => /\ m_start' = m_start /\ m_stop' = m_stop
                        /\ ret' = << At(stopAt) - At(startAt) >> ]_vars

C6_Witness ==
  /\ entry = "timer" /\ startAt # << >> /\ stopAt # << >>
  /\ At(stopAt) # At(startAt) /\ At(startAt) # 0
  /\ ret = << At(stopAt) - At(startAt) >>

RECURSIVE LastFlag(_, _, _)
\* The device class named by the last of the flags -c, --use-cpu, -g and
\* --use-gpu among args[i..], the flags ending at a "--"; `sofar` if none.
LastFlag(args, i, sofar) ==
  IF i > Len(args) \/ args[i].kind = "end" THEN sofar
  ELSE LastFlag(args, i + 1,
                IF args[i] \in {Short("c"), Long("use-cpu")} THEN "CPU"
                ELSE IF args[i] \in {Short("g"), Long("use-gpu")} THEN "GPU"
                ELSE sofar)

\* C7: once the options are parsed, the device class is the one the last
\* -c/--use-cpu/-g/--use-gpu names, CPU if there is none; an unknown flag
\* neither changes it nor ends the run.
C7_LastFlagWins ==
  (entry = "main" /\ pc # "getopt") =>
    /\ exit # "crashed"
    /\ use_gpu = (LastFlag(argv, 1, "CPU") = "GPU")
    /\ device.type \in {"none", LastFlag(argv, 1, "CPU")}

SizedCalls ==
  { "clCreateBuffer", "clEnqueueWriteBuffer", "clEnqueueNDRangeKernel",
    "clEnqueueReadBuffer" }

\* C8: a call with N = 0 ends in one of two ways.  Either it returns normally,
\* no work item was dispatched (the global size is 0), no element was compared
\* and no call that carries the size was rejected; or it throws an exception
\* naming the step of the last call made, a call of which was rejected, and
\* that is the step of any rejected call that carries the size.
C8_ZeroLength ==
  (entry = "call" /\ N = 0 /\ pc = "done") =>
    /\ exit = "none"
    /\ \/ /\ outcome = "returned"
          /\ checked = 0 /\ global_size = 0
          /\ \A k \in Failed : calls[k] \notin SizedCalls
       \/ /\ outcome = "thrown"
          /\ failure = calls[Len(calls)]
          /\ \E k \in Failed :
               calls[k] = failure /\ \A j \in k..Len(calls) : calls[j] = failure
          /\ \A k \in Failed : calls[k] \in SizedCalls => calls[k] = failure

C8_Witness ==
  /\ entry = "call" /\ N = 0 /\ pc = "done"
  /\ outcome = "thrown" /\ failure = "clCreateBuffer"

\* The other way a call with N = 0 ends: every call is accepted.
C8_WitnessReturn ==
  entry = "call" /\ N = 0 /\ pc = "done" /\ outcome = "returned"

IsTimeLine(line) ==
  Len(line) = 3 /\ line[1] = "OpenCL execution time: " /\ line[3] = "s"

\* C9: a run that exits with code 0 has printed exactly one line, of the form
\* "OpenCL execution time: <float>s"; a line is printed only after add_opencl
\* has returned; and a run in which a step failed prints no line.
C9_OneLineOnSuccess ==
  /\ exit = "exit0" => Len(stdout) = 1 /\ IsTimeLine(stdout[1])
  /\ stdout # << >> => outcome = "returned" /\ checked = N
  /\ (Failed # {} \/ failure # "none" \/ exit \in {"terminated", "crashed"})
       => stdout = << >>

\* C10: the kernel is enqueued with global size N and the local size the
\* device reported, so on a device that takes only a global size that is a
\* multiple of the local size, the read-back is reached only if N is such a
\* multiple; otherwise the call throws at the enqueue and reads nothing back.
C10_DispatchSizes ==
  Occurs("clEnqueueNDRangeKernel") =>
    /\ global_size = N
    /\ local_size = device.wg /\ local_size >= 1
    /\ (device.uniform /\ Occurs("clEnqueueReadBuffer")) => N % local_size = 0
    /\ (device.uniform /\ N % device.wg # 0) =>
         /\ outcome = "thrown" /\ failure = "clEnqueueNDRangeKernel"
         /\ ~Occurs("clEnqueueReadBuffer") /\ heap[c_host] = << >>

C10_Witness ==
  /\ device.uniform /\ N % device.wg # 0
  /\ failure = "clEnqueueNDRangeKernel"

====
